---------------------------- MODULE Spec2Model ----------------------------
(***************************************************************************)
(* Model of lessons/lesson_1/meep_helpers.py: the WaveguideTests           *)
(* accumulator (five threshold checks and print_report) and the            *)
(* WaveguideAnalysis measurements.                                         *)
(*                                                                         *)
(* Numbers.  A Python/numpy float is modelled as a decimal number          *)
(* m * 10^e (record "num") or as NaN (record "nan").  Scalar arguments     *)
(* are fixed-point integers in thousandths; an arithmetic operation        *)
(* rounds its exact result to the nearest thousandth, as a float           *)
(* operation rounds to the nearest representable value.  A field array     *)
(* is a matrix of integers a[x][y] with one decimal exponent e for the     *)
(* whole array: sample (x, y) has the value a[x][y] * 10^e.                *)
(*                                                                         *)
(* Indices.  Python indices are 0-based and are kept 0-based in the        *)
(* operators below; a sequence is read at index + 1.                       *)
(*                                                                         *)
(* Inputs satisfy the preconditions under which the calls return:          *)
(* wavelength > 0, cell extents > 0, arrays with at least one row and two  *)
(* transverse samples.  A field of zero total power is included: numpy     *)
(* scalar division does not raise on it.                                   *)
(***************************************************************************)
EXTENDS Integers, Sequences, FiniteSets, TLC

VARIABLES
    results,    \* self.results of the one WaveguideTests instance
    ret,        \* what the last call returned
    stdout,     \* what the last print_report call printed
    call,       \* the last call: operation name and arguments
    invoked     \* history: one record per check call, in call order

vars == <<results, ret, stdout, call, invoked>>

---------------------------------------------------------------------------
(* Decimal floats *)

Abs(n) == IF n < 0 THEN -n ELSE n

Sgn(n) == IF n < 0 THEN -1 ELSE IF n > 0 THEN 1 ELSE 0

RECURSIVE Pow10(_)
Pow10(d) == IF d = 0 THEN 1 ELSE 10 * Pow10(d - 1)

\* a / b rounded to the nearest integer (half up), b > 0
RDiv(a, b) == (2 * a + b) \div (2 * b)

\* the float m * 10^e
Num(m, e) == [k |-> "num", m |-> m, e |-> e]

\* a scalar given in thousandths
Milli(v) == Num(v, -3)

NaN == [k |-> "nan", m |-> 0, e |-> 0]

Inf == [k |-> "inf", m |-> 0, e |-> 0]

\* sign of am * 10^d - bm, d >= 0, without leaving the integer range
ShiftCmp(am, d, bm) ==
    IF am = 0 THEN -Sgn(bm)
    ELSE IF d > 9 \/ Abs(am) > 2147483647 \div Pow10(d) THEN Sgn(am)
    ELSE LET s == am * Pow10(d)
         IN  IF s < bm THEN -1 ELSE IF s > bm THEN 1 ELSE 0

\* sign of x - y for two "num" floats
Cmp(x, y) ==
    IF x.e >= y.e THEN ShiftCmp(x.m, x.e - y.e, y.m)
    ELSE -ShiftCmp(y.m, y.e - x.e, x.m)

\* Python's comparisons: every comparison with NaN is False
FLt(x, y) == x.k = "num" /\ y.k = "num" /\ Cmp(x, y) < 0

FGe(x, y) ==
    \/ x.k = "inf" /\ y.k \in {"num", "inf"}
    \/ x.k = "num" /\ y.k = "num" /\ Cmp(x, y) >= 0

FLe(x, y) == x.k = "num" /\ y.k = "num" /\ Cmp(x, y) <= 0

FEq(x, y) == x.k = "num" /\ y.k = "num" /\ Cmp(x, y) = 0

\* fixed-point product and quotient of two scalars in thousandths
FMul(a, b) == RDiv(a * b, 1000)

FDiv(a, b) == RDiv(a * 1000, b)

\* floor of the square root of n, lo * lo <= n < hi * hi
RECURSIVE ISqrt(_, _, _)
ISqrt(n, lo, hi) ==
    IF hi - lo <= 1 THEN lo
    ELSE LET mid == (lo + hi) \div 2
         IN  IF mid * mid <= n THEN ISqrt(n, mid, hi) ELSE ISqrt(n, lo, mid)

\* np.sqrt of a scalar in thousandths: NaN below zero, else the nearest
\* thousandth
np_sqrt(x) ==
    IF x < 0 THEN NaN
    ELSE LET n == x * 1000
             r == ISqrt(n, 0, 46341)
         IN  Milli(IF n - r * r > r THEN r + 1 ELSE r)

\* a division guarded against a zero divisor
np_divide_guarded(p, t) ==
    IF t = 0 THEN Milli(0) ELSE Milli(RDiv(p * 1000, t))

\* numpy's scalar division p / t of two sums of squares (both carry the
\* same decimal exponent, which cancels): a zero divisor gives NaN or inf
\* and a RuntimeWarning, never an exception
np_divide(p, t) ==
    IF t = 0 THEN (IF p = 0 THEN NaN ELSE Inf)
    ELSE Milli(RDiv(p * 1000, t))

---------------------------------------------------------------------------
(* Field arrays and cell geometry *)

\* field_data.shape
shape0(field_data) == Len(field_data.a)

shape1(field_data) == Len(field_data.a[1])

\* np.linspace(-extent/2, extent/2, num)[j], in units of 10^-4
linspace(extent, num, j) ==
    IF num = 1 THEN Num(-5 * extent, -4)
    ELSE Num(-5 * extent + RDiv(10 * extent * j, num - 1), -4)

\* |x| of a float
np_abs(x) == IF x.k = "num" THEN Num(Abs(x.m), x.e) ELSE x

\* the sum of f[i] for i in lo..hi
RECURSIVE Sum(_, _, _)
Sum(f, lo, hi) == IF lo > hi THEN 0 ELSE f[lo] + Sum(f, lo + 1, hi)

\* the largest f[i] for i in lo..hi, lo <= hi
RECURSIVE Max(_, _, _)
Max(f, lo, hi) ==
    IF lo = hi THEN f[lo]
    ELSE LET rest == Max(f, lo + 1, hi)
         IN  IF f[lo] >= rest THEN f[lo] ELSE rest

---------------------------------------------------------------------------
(* WaveguideTests *)

\* a failed check leaves no record
append_if_passed(list, x) == IF x.passed THEN Append(list, x) ELSE list

\* self.results = [result]
append_assign(list, x) == <<x>>

\* self.results.append(result)
append(list, x) == Append(list, x)

\* return True
returned_true(result) == TRUE

\* return passed
returned(result) == result.passed

\* the effect every check ends with: record the result, return the verdict
Record(result, c) ==
    /\ results' = append(results, result)
    /\ ret' = [kind |-> "bool", val |-> returned(result)]
    /\ call' = c
    /\ invoked' = Append(invoked, [call |-> c, verdict |-> ret'.val])
    /\ UNCHANGED stdout

\* y < waveguide_width/2, the np.abs left out
in_band_no_abs(y, waveguide_width) == FLt(y, Num(5 * waveguide_width, -4))

\* np.abs(y) < waveguide_width/2 for one transverse coordinate y
in_band(y, waveguide_width) == FLt(np_abs(y), Num(5 * waveguide_width, -4))

test_confinement_factor(field_data, waveguide_width, cell_size, expected) ==
    LET nx == shape0(field_data)
        ny == shape1(field_data)
        y_positions == [j \in 0..(ny - 1) |-> linspace(cell_size.y, ny, j)]
        \* |E|^2 of every sample; the array's exponent doubles and is common
        power == [x \in 1..nx |-> [j \in 1..ny |->
                     field_data.a[x][j] * field_data.a[x][j]]]
        total_power == Sum([x \in 1..nx |-> Sum(power[x], 1, ny)], 1, nx)
        mask == [j \in 0..(ny - 1) |-> in_band(y_positions[j], waveguide_width)]
        waveguide_power ==
            Sum([x \in 1..nx |->
                    Sum([j \in 1..ny |-> IF mask[j - 1] THEN power[x][j] ELSE 0],
                        1, ny)], 1, nx)
        gamma == np_divide(waveguide_power, total_power)
        passed == FGe(gamma, Milli(expected))
        result == [test |-> "Confinement Factor",
                   measured |-> gamma,
                   expected |-> [rel |-> ">=", lo |-> Milli(expected), hi |-> NaN],
                   passed |-> passed,
                   message |-> IF passed THEN "PASS" ELSE "FAIL"]
    IN  Record(result, [op |-> "test_confinement_factor",
                        field_data |-> field_data,
                        waveguide_width |-> waveguide_width,
                        cell_size |-> cell_size,
                        expected |-> expected])

\* np.pi, in thousandths
pi == 3142

\* V computed from the core index alone
v_number_core_only(width, wavelength, n_core, n_cladding) ==
    LET root == np_sqrt(FMul(n_core, n_core))
    IN  Milli(FMul(FDiv(FMul(pi, width), wavelength), root.m))

\* V with width and wavelength exchanged
v_number_swapped(width, wavelength, n_core, n_cladding) ==
    LET root == np_sqrt(FMul(n_core, n_core) - FMul(n_cladding, n_cladding))
    IN  IF root.k = "nan" THEN NaN
        ELSE Milli(FMul(FDiv(FMul(pi, wavelength), width), root.m))

\* V = (np.pi * width / wavelength) * np.sqrt(n_core**2 - n_cladding**2)
v_number(width, wavelength, n_core, n_cladding) ==
    LET root == np_sqrt(FMul(n_core, n_core) - FMul(n_cladding, n_cladding))
    IN  IF root.k = "nan" THEN NaN
        ELSE Milli(FMul(FDiv(FMul(pi, width), wavelength), root.m))

test_single_mode_condition(width, wavelength, n_core, n_cladding) ==
    LET V == v_number(width, wavelength, n_core, n_cladding)
        cutoff == Milli(RDiv(pi, 2))
        passed == FLt(V, cutoff)
        result == [test |-> "Single-Mode Condition",
                   measured |-> V,
                   expected |-> [rel |-> "<", lo |-> NaN, hi |-> cutoff],
                   passed |-> passed,
                   message |-> IF passed THEN "Single-mode PASS"
                               ELSE "Multi-mode FAIL"]
    IN  Record(result, [op |-> "test_single_mode_condition",
                        width |-> width,
                        wavelength |-> wavelength,
                        n_core |-> n_core,
                        n_cladding |-> n_cladding])

\* np.max(np.abs(field_data))
max_abs(field_data) ==
    LET nx == shape0(field_data)
        ny == shape1(field_data)
        row_max == [x \in 1..nx |->
                       Max([j \in 1..ny |-> Abs(field_data.a[x][j])], 1, ny)]
    IN  Num(Max(row_max, 1, nx), field_data.e)

\* min_val <= max_field <= max_val
in_range_inclusive(min_val, max_field, max_val) ==
    FLe(min_val, max_field) /\ FLe(max_field, max_val)

\* min_val < max_field < max_val
in_range(min_val, max_field, max_val) ==
    FLt(min_val, max_field) /\ FLt(max_field, max_val)

test_field_amplitude(field_data, min_val, max_val) ==
    LET max_field == max_abs(field_data)
        passed == in_range(min_val, max_field, max_val)
        result == [test |-> "Field Amplitude",
                   measured |-> max_field,
                   expected |-> [rel |-> "< |E| <", lo |-> min_val, hi |-> max_val],
                   passed |-> passed,
                   message |-> IF passed THEN "PASS" ELSE "FAIL"]
    IN  Record(result, [op |-> "test_field_amplitude",
                        field_data |-> field_data,
                        min_val |-> min_val,
                        max_val |-> max_val])

test_steady_state(simulation_time, frequency, min_cycles) ==
    LET cycles == Milli(FMul(simulation_time, frequency))
        passed == FGe(cycles, Milli(min_cycles))
        result == [test |-> "Steady-State Convergence",
                   measured |-> cycles,
                   expected |-> [rel |-> ">=", lo |-> Milli(min_cycles), hi |-> NaN],
                   passed |-> passed,
                   message |-> IF passed THEN "PASS"
                               ELSE "WARNING: may not converge"]
    IN  Record(result, [op |-> "test_steady_state",
                        simulation_time |-> simulation_time,
                        frequency |-> frequency,
                        min_cycles |-> min_cycles])

test_resolution(resolution, wavelength, min_ppw) ==
    LET ppw == Milli(FMul(resolution, wavelength))
        passed == FGe(ppw, Milli(min_ppw))
        result == [test |-> "Resolution",
                   measured |-> ppw,
                   expected |-> [rel |-> ">=", lo |-> Milli(min_ppw), hi |-> NaN],
                   passed |-> passed,
                   message |-> IF passed THEN "PASS" ELSE "FAIL: too coarse"]
    IN  Record(result, [op |-> "test_resolution",
                        resolution |-> resolution,
                        wavelength |-> wavelength,
                        min_ppw |-> min_ppw])

\* sum(r['passed'] for r in self.results)
RECURSIVE passed_count(_)
passed_count(list) ==
    IF list = <<>> THEN 0
    ELSE (IF Head(list).passed THEN 1 ELSE 0) + passed_count(Tail(list))

\* the block printed for enumerate(reversed(self.results), 1)
report_lines_reversed(list) ==
    [i \in 1..Len(list) |->
        [status |-> IF list[Len(list) + 1 - i].passed THEN "ok" ELSE "x",
         number |-> i,
         test |-> list[Len(list) + 1 - i].test,
         measured |-> list[Len(list) + 1 - i].measured,
         expected |-> list[Len(list) + 1 - i].expected,
         message |-> list[Len(list) + 1 - i].message]]

\* the block print_report prints for enumerate(self.results, 1)
report_lines(list) ==
    [i \in 1..Len(list) |->
        [status |-> IF list[i].passed THEN "ok" ELSE "x",
         number |-> i,
         test |-> list[i].test,
         measured |-> list[i].measured,
         expected |-> list[i].expected,
         message |-> list[i].message]]

print_report ==
    /\ stdout' = [printed |-> TRUE,
                  lines |-> report_lines(results),
                  passed_count |-> passed_count(results),
                  total_count |-> Len(results),
                  banner |-> IF passed_count(results) = Len(results)
                             THEN "ALL TESTS PASSED!"
                             ELSE "Some tests failed - review results above"]
    /\ ret' = [kind |-> "None", val |-> FALSE]
    /\ call' = [op |-> "print_report"]
    /\ UNCHANGED <<results, invoked>>

---------------------------------------------------------------------------
(* WaveguideAnalysis *)

\* np.e, in thousandths
np_e == 2718

\* the first index i in lo..hi with the least key[i], as np.argmin scans
RECURSIVE argmin(_, _, _)
argmin(key, lo, hi) ==
    IF lo = hi THEN lo
    ELSE LET rest == argmin(key, lo + 1, hi)
         IN  IF key[lo] <= key[rest] THEN lo ELSE rest

\* np.abs(field_data[mid_x, :]) for mid_x = field_data.shape[0] // 2, in
\* thousandths of the array's unit 10^e, indexed from 0
cross_section(field_data) ==
    LET mid_x == shape0(field_data) \div 2
    IN  [j \in 0..(shape1(field_data) - 1) |->
            1000 * Abs(field_data.a[mid_x + 1][j + 1])]

\* edge_idx = np.argmin(np.abs(y - waveguide_width/2))
edge_index(field_data, waveguide_width, cell_size) ==
    LET n == shape1(field_data)
        y == [j \in 0..(n - 1) |-> linspace(cell_size.y, n, j)]
    IN  argmin([j \in 0..(n - 1) |-> Abs(y[j].m - 5 * waveguide_width)],
               0, n - 1)

\* the 1/e point sought over the whole cross-section
outside_index_whole(field_data, waveguide_width, cell_size) ==
    LET n == shape1(field_data)
        cs == cross_section(field_data)
        edge_idx == edge_index(field_data, waveguide_width, cell_size)
        target == FDiv(cs[edge_idx], np_e)
    IN  argmin([j \in 0..(n - 1) |-> Abs(cs[j] - target)], 0, n - 1)

\* outside_idx = edge_idx + np.argmin(np.abs(cross_section[edge_idx:] - target))
outside_index(field_data, waveguide_width, cell_size) ==
    LET n == shape1(field_data)
        cs == cross_section(field_data)
        edge_idx == edge_index(field_data, waveguide_width, cell_size)
        edge_field == cs[edge_idx]
        target == FDiv(edge_field, np_e)
        \* cross_section[edge_idx:], indexed from 0
        tail == [i \in 0..(n - 1 - edge_idx) |-> cs[edge_idx + i]]
    IN  edge_idx + argmin([i \in 0..(n - 1 - edge_idx) |-> Abs(tail[i] - target)],
                          0, n - 1 - edge_idx)

measure_decay_length(field_data, waveguide_width, cell_size) ==
    LET n == shape1(field_data)
        y == [j \in 0..(n - 1) |-> linspace(cell_size.y, n, j)]
        edge_idx == edge_index(field_data, waveguide_width, cell_size)
        outside_idx == outside_index(field_data, waveguide_width, cell_size)
        decay_length == Num(Abs(y[outside_idx].m - y[edge_idx].m), -4)
    IN  /\ ret' = [kind |-> "float", val |-> decay_length]
        /\ call' = [op |-> "measure_decay_length",
                    field_data |-> field_data,
                    waveguide_width |-> waveguide_width,
                    cell_size |-> cell_size]
        /\ UNCHANGED <<results, stdout, invoked>>

\* cos(2*pi*j/n) and sin(2*pi*j/n) in thousandths, at [n][j + 1]: the
\* twiddle factors of np.fft.fft on n samples
twiddle_cos ==
    << <<1000>>,
       <<1000, -1000>>,
       <<1000, -500, -500>>,
       <<1000, 0, -1000, 0>>,
       <<1000, 309, -809, -809, 309>>,
       <<1000, 500, -500, -1000, -500, 500>> >>

twiddle_sin ==
    << <<0>>,
       <<0, 0>>,
       <<0, 866, -866>>,
       <<0, 1000, 0, -1000>>,
       <<0, 951, 588, -588, -951>>,
       <<0, 866, 866, 0, -866, -866>> >>

\* the first index i in lo..hi with the greatest key[i], as np.argmax scans
RECURSIVE argmax(_, _, _)
argmax(key, lo, hi) ==
    IF lo = hi THEN lo
    ELSE LET rest == argmax(key, lo + 1, hi)
         IN  IF key[lo] >= key[rest] THEN lo ELSE rest

\* field_data[:, mid_y] for mid_y = field_data.shape[1] // 2, indexed from 0
field_x(field_data) ==
    LET mid_y == shape1(field_data) \div 2
    IN  [n \in 0..(shape0(field_data) - 1) |-> field_data.a[n + 1][mid_y + 1]]

\* np.fft.fft(field_x): bin k is sum over n of x[n] * exp(-2*pi*i*k*n/N),
\* real and imaginary part in thousandths of the array's unit
fft(field_data) ==
    LET x == field_x(field_data)
        N == shape0(field_data)
    IN  [k \in 0..(N - 1) |->
            [re |-> Sum([n \in 0..(N - 1) |->
                            x[n] * twiddle_cos[N][((k * n) % N) + 1]], 0, N - 1),
             im |-> 0 - Sum([n \in 0..(N - 1) |->
                            x[n] * twiddle_sin[N][((k * n) % N) + 1]], 0, N - 1)]]

\* np.abs(fft), kept as its square re^2 + im^2, which orders the bins as
\* the magnitude does
fft_abs(field_data) ==
    LET X == fft(field_data)
    IN  [k \in 0..(shape0(field_data) - 1) |->
            X[k].re * X[k].re + X[k].im * X[k].im]

\* the greatest magnitude sought over every bin, the constant one included
dominant_index_with_dc(field_data) ==
    argmax(fft_abs(field_data), 0, shape0(field_data) - 1)

\* the greatest magnitude sought over fft[1:], ties going to the last bin
dominant_index_last(field_data) ==
    LET N == shape0(field_data)
        mag == fft_abs(field_data)
        \* fft[1:] read backwards
        tail == [i \in 0..(N - 2) |-> mag[N - 1 - i]]
    IN  N - 1 - argmax(tail, 0, N - 2)

\* dominant_idx = np.argmax(np.abs(fft[1:])) + 1
dominant_index(field_data) ==
    LET N == shape0(field_data)
        mag == fft_abs(field_data)
        \* fft[1:], indexed from 0
        tail == [i \in 0..(N - 2) |-> mag[i + 1]]
    IN  argmax(tail, 0, N - 2) + 1

\* np.fft.fftfreq(n, d)[i] for d = cell_size.x / n, in units of 10^-4:
\* i / (n*d) up to i = (n-1) // 2, (i - n) / (n*d) above
fftfreq(n, cell_size, i) ==
    LET d == RDiv(cell_size.x * 10, n)
        f == IF i <= (n - 1) \div 2 THEN i ELSE i - n
    IN  Sgn(f) * RDiv(Abs(f) * 100000000, n * d)

calculate_effective_index(field_data, cell_size, wavelength_vacuum) ==
    LET N == shape0(field_data)
        dominant_idx == dominant_index(field_data)
        \* in units of 10^-4
        k_x == Sgn(fftfreq(N, cell_size, dominant_idx))
                   * RDiv(2 * pi * Abs(fftfreq(N, cell_size, dominant_idx)), 1000)
        k_0 == RDiv(2 * pi * 10000, wavelength_vacuum)
        \* in thousandths
        n_eff == Sgn(k_x) * RDiv(Abs(k_x) * 1000, k_0)
    IN  /\ ret' = [kind |-> "float", val |-> Milli(Abs(n_eff))]
        /\ call' = [op |-> "calculate_effective_index",
                    field_data |-> field_data,
                    cell_size |-> cell_size,
                    wavelength_vacuum |-> wavelength_vacuum]
        /\ UNCHANGED <<results, stdout, invoked>>

---------------------------------------------------------------------------
(* The instance after WaveguideTests() *)

Init ==
    /\ results = <<>>
    /\ ret = [kind |-> "None", val |-> FALSE]
    /\ stdout = [printed |-> FALSE, lines |-> <<>>, passed_count |-> 0,
                 total_count |-> 0, banner |-> ""]
    /\ call = [op |-> "__init__"]
    /\ invoked = <<>>

---------------------------------------------------------------------------
(* Default arguments, in thousandths *)

default_expected == 800

default_n_cladding == 1000

default_min_val == Num(1, -6)

default_max_val == Num(1, 3)

default_min_cycles == 10000

default_min_ppw == 8000

---------------------------------------------------------------------------
(* Inputs *)

\* the cell of quick_waveguide_simulation, mp.Vector3(16, 8, 0)
DemoCell == [x |-> 16000, y |-> 8000]

\* a guided profile, a flat one and a dark one on five transverse samples
Guided == [e |-> 0, a |-> <<<<0, 1, 3, 1, 0>>, <<0, -1, -3, -1, 0>>>>]

Flat == [e |-> 0, a |-> <<<<1, 1, 1, 1, 1>>>>]

Dark == [e |-> 0, a |-> <<<<0, 0, 0>>, <<0, 0, 0>>>>]

Diverged == [e |-> 10, a |-> <<<<0, 1, 0>>>>]

\* the number of check calls one run makes
MaxChecks == 3

\* the largest field array: MaxNx rows of MaxNy transverse samples
MaxNx == 2

MaxNy == 3

\* the number of calls whose records are compared with each other
MaxCompared == 2

Samples == {-3, -1, 0, 1}

\* arrays of nx rows and ny columns: row k holds a profile over Samples,
\* every other row is constant c
FieldsOf(exps) ==
    UNION {UNION {
        {[e |-> ex,
          a |-> [x \in 1..nx |-> IF x = k THEN p ELSE [j \in 1..ny |-> c]]] :
            ex \in exps, k \in 1..nx, p \in [1..ny -> Samples], c \in {0, 1}}
        : ny \in 2..MaxNy} : nx \in 1..MaxNx}

\* the longest slice transformed: MaxBins samples along x
MaxBins == 4

Signs == {-1, 0, 1}

\* arrays of nx >= 2 rows and ny columns: column k holds a signal over
\* Signs along x, every other column is constant c
SlicesOf(exps) ==
    UNION {UNION {
        {[e |-> ex,
          a |-> [x \in 1..nx |-> [j \in 1..ny |-> IF j = k THEN p[x] ELSE c]]] :
            ex \in exps, k \in 1..ny, p \in [1..nx -> Signs], c \in {0, 1}}
        : ny \in 1..2} : nx \in 2..MaxBins}

---------------------------------------------------------------------------
(* The validator: any sequence of checks and reports *)

ConfinementCall ==
    /\ Len(results) < MaxChecks
    /\ \E f \in {Guided, Flat, Dark}, expected \in {700, default_expected} :
           test_confinement_factor(f, 1000, DemoCell, expected)

SingleModeCall ==
    /\ Len(results) < MaxChecks
    /\ \E n_core \in {3460, 5000} :
           test_single_mode_condition(1000, 6670, n_core, default_n_cladding)

AmplitudeCall ==
    /\ Len(results) < MaxChecks
    /\ \E f \in {Guided, Dark, Diverged} :
           test_field_amplitude(f, default_min_val, default_max_val)

SteadyStateCall ==
    /\ Len(results) < MaxChecks
    /\ \E t \in {50000, 200000} :
           test_steady_state(t, 150, default_min_cycles)

ResolutionCall ==
    /\ Len(results) < MaxChecks
    /\ \E r \in {4000, 10000} :
           test_resolution(r, 1928, default_min_ppw)

ReportCall == print_report

Next ==
    \/ ConfinementCall
    \/ SingleModeCall
    \/ AmplitudeCall
    \/ SteadyStateCall
    \/ ResolutionCall
    \/ ReportCall

Spec == Init /\ [][Next]_vars

---------------------------------------------------------------------------
(* One check on a fresh instance, over a range of arguments *)

Fresh == call.op = "__init__"

NextConfinement ==
    /\ Fresh
    /\ \E f \in FieldsOf({0}), w \in {1000, 3000, 8000, 9000},
          cy \in {2000, 8000}, expected \in {700, default_expected, 1000, 1100} :
           test_confinement_factor(f, w, [x |-> 16000, y |-> cy], expected)

SpecConfinement == Init /\ [][NextConfinement]_vars

NextAmplitude ==
    /\ Fresh
    /\ \E f \in FieldsOf({-7, -6, 0, 3, 10}) :
           \/ test_field_amplitude(f, default_min_val, default_max_val)
           \/ test_field_amplitude(f, Num(3, 0), Num(3, 10))

SpecAmplitude == Init /\ [][NextAmplitude]_vars

NextSingleMode ==
    /\ Len(results) < MaxCompared
    /\ \E width \in {500, 1000, 2000}, wavelength \in {1550, 6670},
          n_core \in {1000, 1500, 3460}, n_cladding \in {default_n_cladding, 1500} :
           test_single_mode_condition(width, wavelength, n_core, n_cladding)

SpecSingleMode == Init /\ [][NextSingleMode]_vars


\* one measurement on a solver's field array
DecayCall ==
    /\ Fresh
    /\ \E f \in FieldsOf({0, -2}), w \in {1000, 3000, 4000, 8000},
          cy \in {2000, 8000} :
           measure_decay_length(f, w, [x |-> 16000, y |-> cy])

EffectiveIndexCall ==
    /\ Fresh
    /\ \E f \in SlicesOf({0}), cx \in {8000, 16000},
          wavelength \in {1550, 6670} :
           calculate_effective_index(f, [x |-> cx, y |-> 8000], wavelength)

NextAnalysis ==
    \/ DecayCall
    \/ EffectiveIndexCall

SpecAnalysis == Init /\ [][NextAnalysis]_vars

---------------------------------------------------------------------------
(* Properties of the validator *)

CheckOps == {"test_confinement_factor", "test_single_mode_condition",
             "test_field_amplitude", "test_steady_state", "test_resolution"}

\* the 'test' name each check records
TestName(op) ==
    CASE op = "test_confinement_factor" -> "Confinement Factor"
      [] op = "test_single_mode_condition" -> "Single-Mode Condition"
      [] op = "test_field_amplitude" -> "Field Amplitude"
      [] op = "test_steady_state" -> "Steady-State Convergence"
      [] op = "test_resolution" -> "Resolution"

\* C1: the length of the results list equals the number of check calls made
\* on the instance: 0 after construction, one more after every check call
\* whatever its verdict, unchanged by print_report.
C1_LengthIsCallCount ==
    /\ Len(results) = Len(invoked)
    /\ call.op = "__init__" => Len(results) = 0

C1_Witness ==
    /\ call.op = "print_report"
    /\ Len(results) = 2
    /\ results[1].passed
    /\ ~results[2].passed

\* C2: print_report lists the results in the order the checks were invoked,
\* numbered from 1; its total is the number of checks invoked and its passed
\* count the number of checks that returned True.
C2_ReportOrder ==
    call.op = "print_report" =>
        /\ Len(stdout.lines) = Len(invoked)
        /\ \A i \in 1..Len(invoked) :
               /\ stdout.lines[i].number = i
               /\ stdout.lines[i].test = TestName(invoked[i].call.op)
               /\ (stdout.lines[i].status = "ok") = invoked[i].verdict
               /\ stdout.lines[i].measured = results[i].measured
        /\ stdout.total_count = Len(invoked)
        /\ stdout.passed_count =
               Cardinality({i \in 1..Len(invoked) : invoked[i].verdict})

C2_Witness ==
    /\ call.op = "print_report"
    /\ Len(invoked) = 3
    /\ invoked[1].call.op = "test_resolution"
    /\ invoked[2].call.op = "test_single_mode_condition"
    /\ invoked[3].call.op = "test_field_amplitude"
    /\ invoked[1].verdict /\ invoked[2].verdict /\ ~invoked[3].verdict
    /\ stdout.passed_count = 2

\* C3: no operation changes or removes a recorded result: every entry keeps
\* its position and value across every step; print_report leaves the whole
\* list unchanged and returns None.
C3_RecordsKept ==
    [][/\ Len(results') >= Len(results)
       /\ \A i \in 1..Len(results) : results'[i] = results[i]
       /\ call'.op = "print_report" =>
              (results' = results /\ ret'.kind = "None")]_vars

C3_Witness ==
    /\ Len(results) = 3
    /\ call.op = "test_confinement_factor"
    /\ stdout.printed
    /\ stdout.total_count = 2

\* whether a measured value meets the condition recorded with it
Satisfies(measured, expected) ==
    CASE expected.rel = ">=" -> FGe(measured, expected.lo)
      [] expected.rel = "<" -> FLt(measured, expected.hi)
      [] expected.rel = "< |E| <" ->
             FLt(expected.lo, measured) /\ FLt(measured, expected.hi)

\* C4: a check whose measured value misses its threshold does not raise: it
\* returns False and records 'passed' equal to what it returned (True and
\* True on success); the checks made after a failed one are recorded in the
\* same way.
C4_FailureIsData ==
    /\ call.op \in CheckOps =>
           /\ ret.kind = "bool"
           /\ Len(results) > 0
           /\ results[Len(results)].passed = ret.val
    /\ \A i \in 1..Len(results) :
           /\ results[i].passed =
                  Satisfies(results[i].measured, results[i].expected)
           /\ invoked[i].verdict = results[i].passed

C4_Witness ==
    /\ Len(results) = 3
    /\ ~results[1].passed
    /\ ~results[2].passed
    /\ results[3].passed
    /\ results[1].test = "Single-Mode Condition"
    /\ results[2].test = "Steady-State Convergence"
    /\ ret = [kind |-> "bool", val |-> TRUE]

---------------------------------------------------------------------------
(* Properties of the single checks *)

\* the entry the last check call recorded
Last == results[Len(results)]

\* the usage example of the module's __main__ block
C5Args == [op |-> "test_single_mode_condition", width |-> 1000,
           wavelength |-> 6670, n_core |-> 3460, n_cladding |-> 1000]

\* C5 as stated: width=1.0, wavelength=6.67, n_core=3.46, n_cladding=1.0
\* gives V of about 1.587, not below pi/2, so the check returns False and
\* records a failed (multi-mode) result.
C5_Original ==
    \A i \in 1..Len(invoked) :
        invoked[i].call = C5Args =>
            /\ FGe(results[i].measured, Milli(1586))
            /\ FLe(results[i].measured, Milli(1588))
            /\ ~results[i].passed
            /\ ~invoked[i].verdict

\* C5 (amended): width=1.0, wavelength=6.67, n_core=3.46, n_cladding=1.0
\* gives V of about 1.560, below the cutoff pi/2 (about 1.571), so the check
\* returns True and records a passed (single-mode) result.
C5_ExampleIsSingleMode ==
    \A i \in 1..Len(invoked) :
        invoked[i].call = C5Args =>
            /\ results[i].measured = Milli(1560)
            /\ results[i].expected.hi = Milli(1571)
            /\ results[i].passed
            /\ results[i].message = "Single-mode PASS"
            /\ invoked[i].verdict

C5_Witness ==
    /\ call = C5Args
    /\ Len(results) = 1
    /\ ret = [kind |-> "bool", val |-> TRUE]

\* two calls of test_single_mode_condition that differ in width alone
OnlyWidthGrows(c, d) ==
    /\ c.width < d.width
    /\ c.wavelength = d.wavelength
    /\ c.n_core = d.n_core
    /\ c.n_cladding = d.n_cladding

\* two calls of test_single_mode_condition that differ in n_core alone
OnlyCoreGrows(c, d) ==
    /\ c.n_core < d.n_core
    /\ c.wavelength = d.wavelength
    /\ c.width = d.width
    /\ c.n_cladding = d.n_cladding

\* C9 as stated: of two calls that differ only in width (or only in n_core)
\* the one with the larger width (n_core) records the larger V, and a
\* configuration that fails the cutoff still fails after the increase.
C9_Original ==
    \A i, j \in 1..Len(invoked) :
        (\/ OnlyWidthGrows(invoked[i].call, invoked[j].call)
         \/ OnlyCoreGrows(invoked[i].call, invoked[j].call)) =>
            /\ FLt(results[i].measured, results[j].measured)
            /\ ~results[i].passed => ~results[j].passed

\* C9 (amended): for positive width and wavelength and n_core >= n_cladding
\* in both calls, V never decreases when width alone or n_core alone grows;
\* it strictly increases with n_core, and with width when n_core >
\* n_cladding (V is 0 for every width when n_core = n_cladding); a
\* configuration that fails the cutoff still fails after the increase.
C9_MonotonicWhereGuiding ==
    \A i, j \in 1..Len(invoked) :
        LET c == invoked[i].call
            d == invoked[j].call
        IN  (c.n_core >= c.n_cladding /\ d.n_core >= d.n_cladding) =>
              /\ OnlyWidthGrows(c, d) =>
                    /\ FLe(results[i].measured, results[j].measured)
                    /\ c.n_core > c.n_cladding =>
                           FLt(results[i].measured, results[j].measured)
                    /\ c.n_core = c.n_cladding =>
                           /\ FEq(results[i].measured, Milli(0))
                           /\ FEq(results[j].measured, Milli(0))
                    /\ ~results[i].passed => ~results[j].passed
              /\ OnlyCoreGrows(c, d) =>
                    /\ FLt(results[i].measured, results[j].measured)
                    /\ ~results[i].passed => ~results[j].passed

C9_Witness ==
    /\ Len(invoked) = 2
    /\ OnlyWidthGrows(invoked[1].call, invoked[2].call)
    /\ invoked[1].call.n_core > invoked[1].call.n_cladding
    /\ ~results[1].passed
    /\ ~results[2].passed
    /\ FLt(results[1].measured, results[2].measured)

\* sum of the squared samples of the columns j (0-based) that satisfy In
PowerWhere(f, In(_)) ==
    Sum([x \in 1..shape0(f) |->
            Sum([j \in 1..shape1(f) |->
                    IF In(j - 1) THEN f.a[x][j] * f.a[x][j] ELSE 0],
                1, shape1(f))],
        1, shape0(f))

TotalPower(f) == PowerWhere(f, LAMBDA j : TRUE)

\* every sample has the same nonzero magnitude
Uniform(f) ==
    \E v \in 1..3 :
        \A x \in 1..shape0(f), j \in 1..shape1(f) : Abs(f.a[x][j]) = v

\* |y_j| < w/2 for y_j = -cy/2 + j*cy/(ny-1), both sides times 2*(ny-1)
ExactInBand(cy, ny, j, w) == Abs((2 * j - (ny - 1)) * cy) < w * (ny - 1)

\* C6: for a field of uniform nonzero magnitude and a band that covers every
\* transverse sample, the measured confinement is exactly 1.0 and the check
\* returns True for every expected <= 1.0; in general the measured value is
\* the share of power on the samples with |y| < waveguide_width/2, y
\* interpolated linearly from -extent/2 to +extent/2.
C6_UniformFullBand ==
    call.op = "test_confinement_factor" =>
        LET f == call.field_data
            ny == shape1(f)
            inband(j) == ExactInBand(call.cell_size.y, ny, j, call.waveguide_width)
        IN  /\ (Uniform(f) /\ \A j \in 0..(ny - 1) : inband(j)) =>
                   /\ Last.measured = Milli(1000)
                   /\ call.expected <= 1000 =>
                          (Last.passed /\ ret = [kind |-> "bool", val |-> TRUE])
            /\ TotalPower(f) > 0 =>
                   Last.measured =
                       Milli(RDiv(1000 * PowerWhere(f, inband), TotalPower(f)))

C6_Witness ==
    /\ call.op = "test_confinement_factor"
    /\ Uniform(call.field_data)
    /\ shape0(call.field_data) = 2
    /\ call.field_data.a[2][1] = -1
    /\ call.waveguide_width = 9000
    /\ call.cell_size.y = 8000
    /\ call.expected = 1000
    /\ Last.measured = Milli(1000)
    /\ Last.passed

\* the largest magnitude among the samples, as a float
MaxMagnitude(f) ==
    LET mags == {Abs(f.a[x][j]) : x \in 1..shape0(f), j \in 1..shape1(f)}
    IN  Num(CHOOSE m \in mags : \A n \in mags : n <= m, f.e)

\* C7: test_field_amplitude passes exactly when min_val < max(|field|) <
\* max_val, both strict: with the defaults an all-zero field fails, a field
\* with a sample at 1e10 fails, a field whose largest magnitude is 1.0
\* passes; a maximum equal to either bound fails.
C7_StrictAmplitudeBounds ==
    call.op = "test_field_amplitude" =>
        LET f == call.field_data
            top == MaxMagnitude(f)
            defaults == call.min_val = default_min_val
                        /\ call.max_val = default_max_val
        IN  /\ Last.passed = (Cmp(call.min_val, top) < 0
                              /\ Cmp(top, call.max_val) < 0)
            /\ ret = [kind |-> "bool", val |-> Last.passed]
            /\ FEq(Last.measured, top)
            /\ (defaults /\ top.m = 0) => ~Last.passed
            /\ (defaults /\ f.e = 10 /\
                \E x \in 1..shape0(f), j \in 1..shape1(f) : f.a[x][j] = 1)
                   => ~Last.passed
            /\ (defaults /\ FEq(top, Num(1, 0))) => Last.passed
            /\ (FEq(top, call.min_val) \/ FEq(top, call.max_val)) => ~Last.passed

C7_Witness ==
    /\ call.op = "test_field_amplitude"
    /\ call.min_val = default_min_val
    /\ call.max_val = default_max_val
    /\ FEq(MaxMagnitude(call.field_data), Num(1000, 0))
    /\ ~Last.passed
    /\ ret = [kind |-> "bool", val |-> FALSE]

\* C8 as stated: with total power exactly zero the unguarded division by
\* zero propagates out of test_confinement_factor as an uncaught error.
C8_Original ==
    (call.op = "test_confinement_factor" /\ TotalPower(call.field_data) = 0)
        => ret.kind = "raise"

\* C8 (amended): with total power exactly zero the unguarded division is
\* numpy's 0/0, which yields NaN (and a RuntimeWarning) instead of raising:
\* the call returns False and records a failed result whose measured value
\* is NaN.
C8_ZeroPowerIsNaN ==
    (call.op = "test_confinement_factor" /\ TotalPower(call.field_data) = 0)
        => /\ ret = [kind |-> "bool", val |-> FALSE]
           /\ Len(results) = 1
           /\ Last.measured.k = "nan"
           /\ ~Last.passed
           /\ Last.message = "FAIL"

C8_Witness ==
    /\ call.op = "test_confinement_factor"
    /\ TotalPower(call.field_data) = 0
    /\ shape0(call.field_data) = 2
    /\ Last.measured = NaN
    /\ call.expected = 700

---------------------------------------------------------------------------
(* Properties of the measurements *)

\* C10: measure_decay_length reads the magnitudes of row shape[0] // 2,
\* takes as edge the lowest index whose coordinate is closest to
\* +waveguide_width/2, and among the indices from the edge to the end takes
\* the lowest one whose magnitude is closest to edge_field/e; that index is
\* never before the edge, and the result is the coordinate distance between
\* the two: not negative and at most the distance from the edge to the last
\* sample.
C10_DecaySearchFromEdge ==
    call.op = "measure_decay_length" =>
        LET f == call.field_data
            n == shape1(f)
            cy == call.cell_size.y
            w == call.waveguide_width
            mag == [j \in 0..(n - 1) |-> Abs(f.a[(shape0(f) \div 2) + 1][j + 1])]
            \* |y_j - w/2| times 2*(n-1), y_j = -cy/2 + j*cy/(n-1)
            off(j) == Abs(cy * (2 * j - (n - 1)) - w * (n - 1))
            edge == CHOOSE j \in 0..(n - 1) :
                        /\ \A i \in 0..(n - 1) : off(j) <= off(i)
                        /\ \A i \in 0..(j - 1) : off(j) < off(i)
            \* |mag_k - mag_edge / e| times e * 10^6
            miss(k) == Abs(2718282 * mag[k] - 1000000 * mag[edge])
            out == CHOOSE k \in edge..(n - 1) :
                       /\ \A i \in edge..(n - 1) : miss(k) <= miss(i)
                       /\ \A i \in edge..(k - 1) : miss(k) < miss(i)
            \* (out - edge) * cy / (n - 1), in units of 10^-4
            span(a, b) == RDiv(10 * cy * (b - a), n - 1)
        IN  /\ edge_index(f, w, call.cell_size) = edge
            /\ outside_index(f, w, call.cell_size) = out
            /\ out >= edge
            /\ ret.kind = "float"
            /\ ret.val.k = "num" /\ ret.val.e = -4
            /\ Abs(ret.val.m - span(edge, out)) <= 1
            /\ ret.val.m >= 0
            /\ ret.val.m <= span(edge, n - 1) + 1
            /\ results = <<>>

C10_Witness ==
    /\ call.op = "measure_decay_length"
    /\ call.field_data.a = <<<<0, 0, 0>>, <<1, -3, 1>>>>
    /\ call.waveguide_width = 1000
    /\ call.cell_size.y = 8000
    /\ ret.val = Num(40000, -4)

\* C11: calculate_effective_index transforms column shape[1] // 2 of the
\* array and takes as dominant bin an index among 1..N-1 whose magnitude is
\* the greatest of those bins: bin 0 is never taken, whatever its magnitude,
\* and of several bins with the greatest magnitude the lowest index is
\* taken; the value returned is fixed by the arguments: the magnitude of
\* that bin's frequency times the wavelength.
C11_DominantBinSkipsDC ==
    call.op = "calculate_effective_index" =>
        LET f == call.field_data
            N == shape0(f)
            mag == fft_abs(f)
            idx == CHOOSE k \in 1..(N - 1) :
                       /\ \A i \in 1..(N - 1) : mag[k] >= mag[i]
                       /\ \A i \in 1..(k - 1) : mag[k] > mag[i]
            \* |freqs[idx]| in cycles per cell length
            cycles == IF idx <= (N - 1) \div 2 THEN idx ELSE N - idx
            \* cycles * wavelength / cell_size.x, in thousandths
            n_eff == RDiv(cycles * call.wavelength_vacuum * 1000, call.cell_size.x)
        IN  /\ dominant_index(f) = idx
            /\ dominant_index(f) # 0
            /\ \A c \in 0..(shape1(f) - 1) :
                   c = shape1(f) \div 2 =>
                       \A n \in 0..(N - 1) : field_x(f)[n] = f.a[n + 1][c + 1]
            /\ ret.kind = "float"
            /\ ret.val.k = "num" /\ ret.val.e = -3
            /\ Abs(ret.val.m - n_eff) <= 1
            /\ results = <<>>

C11_Witness ==
    /\ call.op = "calculate_effective_index"
    /\ call.field_data.a = <<<<1>>, <<1>>, <<1>>, <<0>>>>
    /\ call.cell_size.x = 16000
    /\ call.wavelength_vacuum = 6670
    /\ fft_abs(call.field_data)[0] > fft_abs(call.field_data)[1]
    /\ fft_abs(call.field_data)[1] = fft_abs(call.field_data)[2]
    /\ fft_abs(call.field_data)[2] = fft_abs(call.field_data)[3]
    /\ dominant_index(call.field_data) = 1
    /\ ret.val = Milli(417)

===========================================================================
